---------------------------- MODULE Spec2Model ----------------------------
(***************************************************************************)
(* Signed-URL service (FastAPI): TraceMiddleware, the signed-URL handler,  *)
(* the /echo/ route, the two registered exception handlers, the settings   *)
(* singleton and the structured log formatter.                             *)
(*                                                                         *)
(* ASGI stack built by app.add_middleware / app.exception_handler:         *)
(*   ServerErrorMiddleware (runs generic_exception_handler, OUTSIDE)       *)
(*     -> TraceMiddleware.dispatch                                         *)
(*       -> call_next: ExceptionMiddleware (runs http_exception_handler    *)
(*          and the framework's request-validation responder, INSIDE)      *)
(*         -> router -> endpoint                                           *)
(* Every request is served in a task of its own; a ContextVar holds one    *)
(* value per task context.                                                 *)
(***************************************************************************)
EXTENDS Integers, Sequences, FiniteSets, TLC

\* ------------------------------------------------------------------ bounds
NumRequests == 2

Requests == 1..NumRequests

\* ------------------------------------------------- values of the environment
None == "None"                      \* Python None where a string is expected
NoId == <<"none", 0>>               \* ContextVar default=None

\* os.environ at startup: ENVIRONMENT and GCP_PROJECT (None when unset)
StartupEnvirons ==
    {[ENVIRONMENT |-> "local", GCP_PROJECT |-> None, DEBUG |-> None],
     [ENVIRONMENT |-> "production", GCP_PROJECT |-> "env-project", DEBUG |-> None]}
CloudProjects    == {"adc-project"}            \* project id resolved by default()

ExpiresInValues == {19, 20, 3600, 3601}
Filenames       == {"report.pdf"}

ge_expires_in == 20
le_expires_in == 3600

HTTP_404_NOT_FOUND == 404
HTTP_500_INTERNAL_SERVER_ERROR == 500

\* ---------------------------------------------------------------- settings
LocalSettings ==
    [PROJECT_NAME |-> "Abacus Signed URL Generator", ENVIRONMENT |-> "local",
     LOG_LEVEL |-> "DEBUG", API_V1_STR |-> "/v1", DEBUG |-> TRUE,
     GCS_BUCKET_NAME |-> "abacus-claims", GCP_PROJECT |-> "grpit-cds-sandpit-dev"]

DevelopmentSettings ==
    [PROJECT_NAME |-> "Abacus Signed URL Generator", ENVIRONMENT |-> "development",
     LOG_LEVEL |-> "INFO", API_V1_STR |-> "/v1", DEBUG |-> FALSE,
     GCS_BUCKET_NAME |-> "abacus-claims-dev", GCP_PROJECT |-> ""]

TestSettings ==
    [PROJECT_NAME |-> "Abacus Signed URL Generator", ENVIRONMENT |-> "test",
     LOG_LEVEL |-> "WARNING", API_V1_STR |-> "/v1", DEBUG |-> FALSE,
     GCS_BUCKET_NAME |-> "", GCP_PROJECT |-> ""]

StagingSettings ==
    [PROJECT_NAME |-> "Abacus Signed URL Generator", ENVIRONMENT |-> "staging",
     LOG_LEVEL |-> "INFO", API_V1_STR |-> "/v1", DEBUG |-> FALSE,
     GCS_BUCKET_NAME |-> "", GCP_PROJECT |-> ""]

ProductionSettings ==
    [PROJECT_NAME |-> "Abacus Signed URL Generator", ENVIRONMENT |-> "production",
     LOG_LEVEL |-> "WARNING", API_V1_STR |-> "/v1", DEBUG |-> FALSE,
     GCS_BUCKET_NAME |-> "", GCP_PROJECT |-> ""]

\* _environment_settings_map.get(name), with the fallback to LocalSettings
settings_class(name) ==
    CASE name = "local"       -> LocalSettings
      [] name = "development" -> DevelopmentSettings
      [] name = "test"        -> TestSettings
      [] name = "staging"     -> StagingSettings
      [] name = "production"  -> ProductionSettings
      [] OTHER                -> LocalSettings

\* str.lower() on the names a deployment may put in ENVIRONMENT
lower_keep_case(s) == s

lower(s) ==
    CASE s \in {"LOCAL", "Local"}             -> "local"
      [] s \in {"DEVELOPMENT", "Development"} -> "development"
      [] s \in {"TEST", "Test"}               -> "test"
      [] s \in {"STAGING", "Staging"}         -> "staging"
      [] s \in {"PRODUCTION", "Production"}   -> "production"
      [] s = "PROD"                           -> "prod"
      [] OTHER                                -> s

\* line 110: os.environ.get("ENVIRONMENT", "local").lower()
current_environment_name(env_name) ==
    IF env_name = None THEN "local" ELSE lower(env_name)

\* get_setings(): the instance built from the selected class; pydantic-settings
\* lets the ENVIRONMENT and GCP_PROJECT environment variables override the
\* class defaults of the fields of the same name.
get_setings(env_name, env_gcp_project) ==
    LET class == settings_class(current_environment_name(env_name))
        named == IF env_name = None THEN class
                 ELSE [class EXCEPT !.ENVIRONMENT = env_name]
    IN  IF env_gcp_project = None
        THEN named
        ELSE [named EXCEPT !.GCP_PROJECT = env_gcp_project]

\* get_bootstrap_settings().GCP_PROJECT, handed to setup_logging(project_id=...)
bootstrap_project_id(env_gcp_project) == env_gcp_project

\* ------------------------------------------------------- process start-up
\* The process outside any request: how far the import of app.main has
\* come, the module-level singletons and caches, and the root logger.
MaxLaterCalls == 2       \* calls made by other code after the import
MaxServed     == 2       \* requests accepted once the application serves

\* values of the ENVIRONMENT variable (None: unset)
EnvironmentValues ==
    {None, "", "local", "LOCAL", "development", "Development", "test", "TEST",
     "staging", "Staging", "production", "PRODUCTION", "Production", "prod", "bogus"}

\* os.environ at process start; DEBUG = "notabool" cannot be parsed as bool
ProcessEnvirons ==
    [ENVIRONMENT : EnvironmentValues, GCP_PROJECT : {None, "env-project"},
     DEBUG : {None, "notabool"}]

\* handlers another library or test runner may have put on the root logger
PriorHandlers == {<<>>, <<"stderr_plain">>, <<"stderr_plain", "capture">>}

NoSettings ==
    [PROJECT_NAME |-> "", ENVIRONMENT |-> "", LOG_LEVEL |-> "", API_V1_STR |-> "",
     DEBUG |-> FALSE, GCS_BUCKET_NAME |-> "", GCP_PROJECT |-> ""]

InitialProcess(prior) ==
    [pc                |-> "app_config:49",
     exit_status       |-> <<>>,
     settings_instance |-> <<>>,    \* config._settings_instance
     settings_cache    |-> <<>>,    \* lru_cache of get_settings_cached
     bootstrap_cache   |-> <<>>,    \* lru_cache of get_bootstrap_settings_cached
     constructions     |-> 0,       \* settings_class() calls so far
     logger            |-> FALSE,   \* AppConfig._logger is not None
     prior_handlers    |-> prior,
     handlers          |-> prior,   \* logging.getLogger().handlers
     formatter         |-> None,    \* project_id of the structured formatter
     setup_calls       |-> 0,
     log_calls         |-> 0,
     records_emitted   |-> 0,
     returned          |-> <<>>,    \* what the latest settings call returned
     later_calls       |-> <<>>,
     served            |-> 0]

\* settings_class() raises a ValidationError on a malformed variable
construction_raises(env) == env.DEBUG = "notabool"

\* an except clause that lets the process go on
sys_exit_swallowed(p) == p

\* sys.exit("Failed to load critical application settings."): SystemExit
\* with a string argument ends the interpreter with status 1
sys_exit(p) == [p EXCEPT !.pc = "exited", !.exit_status = <<1>>]

has_settings_instance_never(p) == FALSE

\* line 101: `if _settings_instance:`
has_settings_instance(p) == p.settings_instance # <<>>

\* config.get_setings() as a step of the process
get_setings_call(p, env) ==
    IF p.pc = "exited" THEN p
    ELSE IF has_settings_instance(p)
    THEN [p EXCEPT !.returned = p.settings_instance]
    ELSE IF construction_raises(env)
    THEN sys_exit(p)
    ELSE LET instance ==
                [id     |-> p.constructions + 1,
                 class  |-> settings_class(current_environment_name(env.ENVIRONMENT)),
                 fields |-> get_setings(env.ENVIRONMENT, env.GCP_PROJECT)]
         IN  [p EXCEPT !.constructions = @ + 1,
                       !.settings_instance = <<instance>>,
                       !.returned = <<instance>>]

\* AppConfig.get_settings_cached(): lru_cache(maxsize=1) around get_setings()
get_settings_cached(p, env) ==
    IF p.pc = "exited" THEN p
    ELSE IF p.settings_cache # <<>>
    THEN [p EXCEPT !.returned = p.settings_cache]
    ELSE LET q == get_setings_call(p, env)
         IN  IF q.pc = "exited" THEN q ELSE [q EXCEPT !.settings_cache = q.returned]

\* one logger call: every handler of the root logger emits the record
log_call(p) ==
    [p EXCEPT !.log_calls = @ + 1, !.records_emitted = @ + Len(p.handlers)]

clear_handlers_kept(handlers) == handlers

\* lines 111-112: for handler in logger.handlers[:]: logger.removeHandler(handler)
clear_handlers(handlers) == <<>>

\* setup_logging(project_id=...): one stdout handler with the structured
\* formatter, then the "Logging setup complete" entry
setup_logging(p, project_id) ==
    log_call([p EXCEPT !.handlers = Append(clear_handlers(@), "stdout_structured"),
                       !.formatter = project_id,
                       !.setup_calls = @ + 1])

\* AppConfig.get_bootstrap_settings_cached()
get_bootstrap_settings_cached(p, env) ==
    IF p.bootstrap_cache # <<>> THEN p
    ELSE [p EXCEPT !.bootstrap_cache = <<bootstrap_project_id(env.GCP_PROJECT)>>]

\* a get_configured_logger that sets logging up on every call
get_configured_logger_unguarded(p, env) ==
    IF p.pc = "exited" THEN p
    ELSE LET q == get_bootstrap_settings_cached(p, env)
         IN  [setup_logging(q, q.bootstrap_cache[1]) EXCEPT !.logger = TRUE]

\* AppConfig.get_configured_logger()
get_configured_logger(p, env) ==
    IF p.pc = "exited" \/ p.logger THEN p
    ELSE LET q == get_bootstrap_settings_cached(p, env)
         IN  [setup_logging(q, q.bootstrap_cache[1]) EXCEPT !.logger = TRUE]

\* AppConfig.initialize_app_config()
initialize_app_config(p, env) ==
    get_settings_cached(get_configured_logger(p, env), env)

\* GCSClient.__new__: two entries, whether storage.Client() succeeds or not
GCSClient_new(p) == log_call(log_call(p))

\* lifespan(): the three start-up entries before the yield
lifespan(p) == log_call(log_call(log_call(p)))

\* the import goes on to the next statement unless the process has exited
proceed(p, next) == IF p.pc = "exited" THEN p ELSE [p EXCEPT !.pc = next]

\* the whole start-up, as the serving process sees its result
started(env) ==
    LET settings_bound == get_settings_cached(InitialProcess(<<>>), env)
        logger_bound   == get_configured_logger(settings_bound, env)
        initialized    == initialize_app_config(logger_bound, env)
    IN  proceed(lifespan(GCSClient_new(initialized)), "serving")


\* ------------------------------------------------------------------- state
VARIABLES
    environ,              \* os.environ of the process: [ENVIRONMENT, GCP_PROJECT]
    settings,             \* the settings singleton (app_config.settings)
    formatter_project_id, \* StructuredLogFormatter.project_id of the one handler
    gcs_client,           \* GCSClient._client: "client", or None if init failed
    pc,                   \* position of each request in the ASGI stack
    request,              \* the inbound request: route and query parameters
    trace_id_var,         \* ContextVar "trace_id": one cell per task context
    span_id_var,          \* ContextVar "span_id": one cell per task context
    locals,               \* dispatch's locals: trace_id, span_id and the two tokens
    credentials,          \* generate_signed_url's local credentials object
    calls,                \* per request, the cloud capabilities invoked, in
                          \* order, each with its result: <<capability, result>>
    logs,                 \* per request, the formatted entries written to stdout
    response,             \* per request, the response travelling up the stack
    raised,               \* per request, the exception travelling up the stack
    process,              \* the process outside any request (see InitialProcess)
    log_record,           \* a log record handed to StructuredLogFormatter.format
    entry                 \* what format returned for it

vars == <<environ, settings, formatter_project_id, gcs_client, pc, request,
          trace_id_var, span_id_var, locals, credentials, calls, logs,
          response, raised, process, log_record, entry>>

request_vars == <<pc, request, trace_id_var, span_id_var, locals, credentials,
                  calls, logs, response, raised>>

\* ------------------------------------------------------- plain data values
NoRequest     == [route |-> "none", filename |-> "", expires_in |-> 0]
NoLocals      == [trace_id |-> NoId, span_id |-> NoId,
                  trace_token |-> NoId, span_token |-> NoId]
NoCredentials == [kind |-> "none", service_account_email |-> None, valid |-> FALSE]
NoException   == [type |-> "none", message |-> "", status_code |-> 0]
NoResponse    == [status_code |-> 0, headers |-> {}, body |-> [none |-> TRUE]]

\* exceptions that are not HTTPException and escape the handler chain
UnexpectedExceptions ==
    {[type |-> "ValueError", message |-> "db password is hunter2", status_code |-> 0]}

HTTPException(status_code, detail) ==
    [type |-> "HTTPException", message |-> detail, status_code |-> status_code]

DefaultCredentialsError == 
    [type |-> "DefaultCredentialsError", message |-> "could not find default credentials",
     status_code |-> 0]
RefreshError ==
    [type |-> "RefreshError", message |-> "token endpoint unreachable", status_code |-> 0]
GoogleAPIError ==
    [type |-> "GoogleAPIError", message |-> "storage backend error", status_code |-> 0]
RuntimeError ==
    [type |-> "RuntimeError", message |-> "Google Cloud Storage client is not initialized.",
     status_code |-> 0]

\* uuid.uuid4() and binascii.hexlify(os.urandom(8)): fresh values, one per request
uuid4(r)       == <<"trace", r>>
urandom_hex(r) == <<"span", r>>

\* Python truthiness of an optional string
Truthy(s) == s # None /\ s # ""

\* --------------------------------------------------------------- ContextVar
\* The context a request's task runs in.  Each request is served in its own
\* task, so each has its own cell of every ContextVar.
ContextOfShared(r) == 1      \* one cell shared by every task: a plain global
ContextOf(r) == r

\* ---------------------------------------------------- StructuredLogFormatter
\* format(record): the JSON entry.  severity and message always; the trace
\* field when a trace id is in the context and a project id is configured;
\* the span id when one is in the context; the exception text with exc_info.
\* a formatter that attaches the trace field whenever a trace id is present
format_trace_without_project(severity, message, exc, trace_id, span_id, project_id) ==
    LET base == [severity |-> severity, message |-> message]
        withTrace == IF trace_id # NoId
                     THEN ("trace" :> <<"projects", project_id, "traces", trace_id>>)
                     ELSE <<>>
        withSpan  == IF span_id # NoId THEN ("spanId" :> span_id) ELSE <<>>
        withExc   == IF exc # NoException
                     THEN ("exception" :> <<exc.type, exc.message>>)
                     ELSE <<>>
    IN  base @@ withTrace @@ withSpan @@ withExc

format(severity, message, exc, trace_id, span_id, project_id) ==
    LET base == [severity |-> severity, message |-> message]
        withTrace == IF trace_id # NoId /\ Truthy(project_id)
                     THEN ("trace" :> <<"projects", project_id, "traces", trace_id>>)
                     ELSE <<>>
        withSpan  == IF span_id # NoId THEN ("spanId" :> span_id) ELSE <<>>
        withExc   == IF exc # NoException
                     THEN ("exception" :> <<exc.type, exc.message>>)
                     ELSE <<>>
    IN  base @@ withTrace @@ withSpan @@ withExc

\* one logger call made while serving request r: the handler formats the
\* record with the ContextVar values of the calling task
Log(r, severity, message, exc) ==
    format(severity, message, exc,
           trace_id_var[ContextOf(r)], span_id_var[ContextOf(r)],
           formatter_project_id)


\* ---------------------------------------------------------------- responses
Response(status_code) ==
    [status_code |-> status_code, headers |-> {}, body |-> [empty |-> TRUE]]

JSONResponse(status_code, content) ==
    [status_code |-> status_code, headers |-> {}, body |-> content]

\* the framework's responder for a query parameter that fails validation:
\* no handler for it is registered in main.py, so the default body is sent
request_validation_response ==
    JSONResponse(422, [detail |-> <<[type |-> "value_error", loc |-> <<"query", "expires_in">>]>>])

\* @app.exception_handler(HTTPException): every detail raised in this
\* code base is a string, so the body is the HTTP_ERROR pair
http_exception_handler(exc) ==
    JSONResponse(exc.status_code, [code |-> "HTTP_ERROR", message |-> exc.message])

\* @app.exception_handler(Exception)
generic_exception_handler(req, exc) ==
    JSONResponse(HTTP_500_INTERNAL_SERVER_ERROR,
        [code    |-> "UNEXPECTED_ERROR",
         message |-> "An unexpected server error occurred. Please try again later.",
         details |-> [error_type |-> exc.type, message |-> exc.message,
                      request_path |-> req.route]])

\* ------------------------------------------------------------------- Init
NoLogRecord ==
    [severity |-> "", message |-> "", exc |-> NoException,
     trace_id |-> NoId, span_id |-> NoId, project_id |-> None]

Init ==
    /\ environ \in StartupEnvirons
    /\ settings = get_setings(environ.ENVIRONMENT, environ.GCP_PROJECT)
    /\ formatter_project_id = bootstrap_project_id(environ.GCP_PROJECT)
    /\ gcs_client \in {"client", None}
    /\ pc = [r \in Requests |-> "idle"]
    /\ request = [r \in Requests |-> NoRequest]
    /\ trace_id_var = [r \in Requests |-> NoId]
    /\ span_id_var = [r \in Requests |-> NoId]
    /\ locals = [r \in Requests |-> NoLocals]
    /\ credentials = [r \in Requests |-> NoCredentials]
    /\ calls = [r \in Requests |-> <<>>]
    /\ logs = [r \in Requests |-> <<>>]
    /\ response = [r \in Requests |-> NoResponse]
    /\ raised = [r \in Requests |-> NoException]
    /\ process = started(environ)
    /\ log_record = NoLogRecord
    /\ entry = <<>>

\* the requests a client can send
InboundRequests ==
    {[route |-> "/echo/", filename |-> "", expires_in |-> 0]}
    \cup [route : {"/v1/url/"}, filename : Filenames, expires_in : ExpiresInValues]

\* ------------------------------------------------------ TraceMiddleware
\* dispatch, up to the await of call_next: ids generated, stored in the
\* ContextVars (the tokens remember the previous values), two INFO entries.
\* Requests are numbered in the order they arrive.
dispatch_start(r) ==
    /\ pc[r] = "idle"
    /\ (r > 1) => (pc[r - 1] # "idle")
    /\ \E req \in InboundRequests :
        LET c == ContextOf(r)
            tid == uuid4(r)
            sid == urandom_hex(r)
        IN  /\ request' = [request EXCEPT ![r] = req]
            /\ locals' = [locals EXCEPT ![r] =
                    [trace_id |-> tid, span_id |-> sid,
                     trace_token |-> trace_id_var[c], span_token |-> span_id_var[c]]]
            /\ trace_id_var' = [trace_id_var EXCEPT ![c] = tid]
            /\ span_id_var' = [span_id_var EXCEPT ![c] = sid]
            /\ logs' = [logs EXCEPT ![r] = @ \o
                    <<format("INFO", "Request started", NoException, tid, sid,
                             formatter_project_id),
                      format("INFO", "URL to be processed", NoException, tid, sid,
                             formatter_project_id)>>]
            /\ response' = [response EXCEPT ![r] = Response(HTTP_500_INTERNAL_SERVER_ERROR)]
            /\ pc' = [pc EXCEPT ![r] = "call_next"]
    /\ UNCHANGED <<process, log_record, entry>>
    /\ UNCHANGED <<environ, settings, formatter_project_id, gcs_client,
                   credentials, calls, raised>>

\* what leaves dispatch when call_next raised e: `raise e`, e itself
reraise_wrapped(e) ==
    [type |-> "RuntimeError", message |-> "request failed", status_code |-> 0]
reraise(e) == e

\* an except branch followed by the finish entry, as a `finally` would give
dispatch_except_then_finished(r) ==
    /\ pc[r] = "call_next"
    /\ \E e \in UnexpectedExceptions :
        /\ logs' = [logs EXCEPT ![r] = @ \o
                <<Log(r, "ERROR", "Exception during request processing", e),
                  Log(r, "INFO", "Request finished", NoException)>>]
        /\ raised' = [raised EXCEPT ![r] = reraise(e)]
    /\ pc' = [pc EXCEPT ![r] = "dispatch_raised"]
    /\ UNCHANGED <<process, log_record, entry>>
    /\ UNCHANGED <<environ, settings, formatter_project_id, gcs_client, request,
                   trace_id_var, span_id_var, locals, credentials, calls,
                   response>>

\* dispatch, the except branch: call_next raised an exception e that no
\* handler inside the chain converts; one ERROR entry, then `raise e`.
\* Nothing after the try statement runs: no headers, no ContextVar reset.
dispatch_except(r) ==
    /\ pc[r] = "call_next"
    /\ \E e \in UnexpectedExceptions :
        /\ logs' = [logs EXCEPT ![r] = @ \o
                <<Log(r, "ERROR", "Exception during request processing", e)>>]
        /\ raised' = [raised EXCEPT ![r] = reraise(e)]
    /\ pc' = [pc EXCEPT ![r] = "dispatch_raised"]
    /\ UNCHANGED <<process, log_record, entry>>
    /\ UNCHANGED <<environ, settings, formatter_project_id, gcs_client, request,
                   trace_id_var, span_id_var, locals, credentials, calls,
                   response>>

\* dispatch, after call_next returned `returned` (the chain having logged
\* `entries` in its last step): headers, one INFO entry, both ContextVars
\* reset with their tokens, the response returned to the client.  Nothing
\* blocks between the return of call_next and the return of dispatch.
stamp_headers(r, returned) ==
    [returned EXCEPT !.headers = @ \cup
        {<<"X-Process-Time", <<"seconds", 0>>>>,
         <<"X-Trace-ID", locals[r].trace_id>>,
         <<"X-Span-ID", locals[r].span_id>>}]

dispatch_return(r, entries, returned) ==
    /\ response' = [response EXCEPT ![r] = stamp_headers(r, returned)]
    /\ logs' = [logs EXCEPT ![r] = @ \o entries \o
            <<Log(r, "INFO", "Request finished", NoException)>>]
    /\ trace_id_var' = [trace_id_var EXCEPT ![ContextOf(r)] = locals[r].trace_token]
    /\ span_id_var' = [span_id_var EXCEPT ![ContextOf(r)] = locals[r].span_token]
    /\ pc' = [pc EXCEPT ![r] = "done"]

\* ServerErrorMiddleware: the exception left dispatch; the registered
\* catch-all handler logs it and its response is sent to the client
server_error(r) ==
    /\ pc[r] = "dispatch_raised"
    /\ logs' = [logs EXCEPT ![r] = @ \o
            <<Log(r, "ERROR", "Unhandled exception caught", raised[r])>>]
    /\ response' = [response EXCEPT ![r] = generic_exception_handler(request[r], raised[r])]
    /\ pc' = [pc EXCEPT ![r] = "done"]
    /\ UNCHANGED <<process, log_record, entry>>
    /\ UNCHANGED <<environ, settings, formatter_project_id, gcs_client, request,
                   trace_id_var, span_id_var, locals, credentials, calls, raised>>

\* ------------------------------------------------------------------ /echo/
root(r) ==
    /\ pc[r] = "call_next"
    /\ request[r].route = "/echo/"
    /\ dispatch_return(r, <<>>, JSONResponse(200,
            [ProjectName |-> settings.PROJECT_NAME,
             Environment |-> settings.ENVIRONMENT,
             ApiVersion  |-> settings.API_V1_STR,
             BucketName  |-> settings.GCS_BUCKET_NAME,
             DebugMode   |-> settings.DEBUG]))
    /\ UNCHANGED <<process, log_record, entry>>
    /\ UNCHANGED <<environ, settings, formatter_project_id, gcs_client, request,
                   locals, credentials, calls, raised>>


\* ------------------------------------------------- generate_signed_url
\* Query(300, ge=20, le=3600): the framework validates before the endpoint runs
expires_in_valid_exclusive(expires_in) ==
    expires_in > ge_expires_in /\ expires_in < le_expires_in
expires_in_valid(expires_in) ==
    expires_in >= ge_expires_in /\ expires_in <= le_expires_in

InvalidCredentialsDetail ==
    "Invalid Google Cloud credentials. Please check your Cloud Run service account configuration and permissions."
SigningIdentityDetail ==
    "Could not determine the service account identity for URL signing. Check Cloud Run service account configuration."
FileNotFoundDetail ==
    "File not found in Google Cloud Storage."
AuthenticationFailedDetail ==
    "Authentication to Google Cloud failed. Please check your Cloud Run service account permissions."
InternalServerErrorDetail ==
    "Internal server error: Could not generate signed URL. Please check server logs."

\* the two except clauses of the endpoint: the exception leaving it
\* a handler without the two except clauses
except_clauses_absent(e) == e

except_clauses_no_reraise(e) ==
    IF e.type = "DefaultCredentialsError"
    THEN HTTPException(HTTP_500_INTERNAL_SERVER_ERROR, AuthenticationFailedDetail)
    ELSE HTTPException(HTTP_500_INTERNAL_SERVER_ERROR, InternalServerErrorDetail)
except_clauses(e) ==
    IF e.type = "DefaultCredentialsError"
    THEN HTTPException(HTTP_500_INTERNAL_SERVER_ERROR, AuthenticationFailedDetail)
    ELSE IF e.type = "HTTPException"
         THEN e
         ELSE HTTPException(HTTP_500_INTERNAL_SERVER_ERROR, InternalServerErrorDetail)

\* the logger.exception call of the clause that catches e
except_log(r, e) ==
    IF e.type = "DefaultCredentialsError"
    THEN Log(r, "ERROR", "Google Cloud authentication failed", e)
    ELSE Log(r, "ERROR", "An unexpected error occurred during signed URL generation", e)

\* e is raised inside the try block after the entries `before` were logged:
\* the except clause logs and raises an HTTPException, ExceptionMiddleware
\* hands it to http_exception_handler, whose response call_next returns
raise_in_handler(r, before, e) ==
    /\ dispatch_return(r,
            before \o <<except_log(r, e),
                        Log(r, "ERROR", "HTTPException caught", NoException)>>,
            http_exception_handler(except_clauses(e)))
    /\ credentials' = [credentials EXCEPT ![r] = NoCredentials]

\* a variant that accepts any compute-kind credentials, with or without email
resolve_signing_identity_kind_only(r, before, creds) ==
    IF creds.kind = "ComputeEngineCredentials"
    THEN /\ logs' = [logs EXCEPT ![r] = @ \o before]
         /\ credentials' = [credentials EXCEPT ![r] = creds]
         /\ pc' = [pc EXCEPT ![r] = "h_exists"]
         /\ UNCHANGED <<response, trace_id_var, span_id_var>>
    ELSE raise_in_handler(r,
            before \o <<Log(r, "ERROR", "Could not determine service account email", NoException)>>,
            HTTPException(HTTP_500_INTERNAL_SERVER_ERROR, SigningIdentityDetail))

\* lines 69-84, reached with valid credentials: the signing identity is the
\* email of compute-engine credentials, otherwise a 500 is raised
resolve_signing_identity(r, before, creds) ==
    IF creds.kind = "ComputeEngineCredentials" /\ Truthy(creds.service_account_email)
    THEN /\ logs' = [logs EXCEPT ![r] = @ \o before]
         /\ credentials' = [credentials EXCEPT ![r] = creds]
         /\ pc' = [pc EXCEPT ![r] = "h_exists"]
         /\ UNCHANGED <<response, trace_id_var, span_id_var>>
    ELSE raise_in_handler(r,
            before \o <<Log(r, "ERROR", "Could not determine service account email", NoException)>>,
            HTTPException(HTTP_500_INTERNAL_SERVER_ERROR, SigningIdentityDetail))

\* what google.auth.default() can return
DefaultCredentials ==
    [kind : {"ComputeEngineCredentials"},
     service_account_email : {"svc@adc-project.iam"},
     valid : BOOLEAN]
    \cup [kind : {"ComputeEngineCredentials", "UserCredentials"},
          service_account_email : {None}, valid : {TRUE}]

\* the framework rejects the query before the endpoint is called
request_validation_error(r) ==
    /\ pc[r] = "call_next"
    /\ request[r].route = "/v1/url/"
    /\ ~expires_in_valid(request[r].expires_in)
    /\ dispatch_return(r, <<>>, request_validation_response)
    /\ UNCHANGED <<process, log_record, entry>>
    /\ UNCHANGED <<environ, settings, formatter_project_id, gcs_client, request,
                   locals, credentials, calls, raised>>

\* lines 31-60: default() is called; its project id is stored in the
\* settings singleton; valid credentials go on to the identity check,
\* invalid ones to the refresh
assign_project_to_bucket_name(s, project) == [s EXCEPT !.GCS_BUCKET_NAME = project]

\* line 37: `credentials, settings.GCP_PROJECT = default(scopes=scopes)`
assign_project(s, project) == [s EXCEPT !.GCP_PROJECT = project]

\* line 41: f"Credentials object type: {type(credentials)}"
credentials_type_message(creds) ==
    IF creds.kind = "ComputeEngineCredentials"
    THEN "Credentials object type: ComputeEngineCredentials"
    ELSE "Credentials object type: UserCredentials"

\* lines 43-48: getattr(credentials, "service_account_email", "UNKNOWN_SERVICE_ACCOUNT_EMAIL"),
\* interpolated into the message; only the compute kind has the attribute
service_account_email_message(creds) ==
    IF creds.kind # "ComputeEngineCredentials"
    THEN "Credentials service_account_email (from object): UNKNOWN_SERVICE_ACCOUNT_EMAIL"
    ELSE IF creds.service_account_email = None
         THEN "Credentials service_account_email (from object): None"
         ELSE "Credentials service_account_email (from object): svc@adc-project.iam"

generate_signed_url_default(r) ==
    /\ pc[r] = "call_next"
    /\ request[r].route = "/v1/url/"
    /\ expires_in_valid(request[r].expires_in)
    /\ LET received == <<Log(r, "INFO", "Received request to generate signed URL", NoException)>>
       IN  \/ /\ raise_in_handler(r, received, DefaultCredentialsError)
              /\ calls' = [calls EXCEPT ![r] = Append(@, <<"default", "raised">>)]
              /\ UNCHANGED settings
           \/ \E creds \in DefaultCredentials, project \in CloudProjects :
                LET checkpoints == received \o
                        <<Log(r, "INFO", credentials_type_message(creds), NoException),
                          Log(r, "INFO", service_account_email_message(creds), NoException),
                          Log(r, "INFO", "Credentials token", NoException),
                          Log(r, "INFO", "Project ID from default()", NoException)>>
                IN  /\ calls' = [calls EXCEPT ![r] = Append(@,
                            <<"default", IF creds.valid THEN "valid" ELSE "invalid">>)]
                    /\ settings' = assign_project(settings, project)
                    /\ IF creds.valid
                       THEN resolve_signing_identity(r, checkpoints, creds)
                       ELSE /\ logs' = [logs EXCEPT ![r] = @ \o checkpoints \o
                                    <<Log(r, "ERROR", "Invalid Google Cloud credentials detected. Attempting refresh.", NoException)>>]
                            /\ credentials' = [credentials EXCEPT ![r] = creds]
                            /\ pc' = [pc EXCEPT ![r] = "h_refresh"]
                            /\ UNCHANGED <<response, trace_id_var, span_id_var>>
    /\ UNCHANGED <<process, log_record, entry>>
    /\ UNCHANGED <<environ, formatter_project_id, gcs_client, request, locals, raised>>

\* lines 60-84: the one credentials.refresh() call and what follows it
generate_signed_url_refresh(r) ==
    /\ pc[r] = "h_refresh"
    /\ \/ /\ raise_in_handler(r, <<>>, RefreshError)
          /\ calls' = [calls EXCEPT ![r] = Append(@, <<"refresh", "raised">>)]
       \/ \E valid \in BOOLEAN :
            /\ calls' = [calls EXCEPT ![r] = Append(@,
                    <<"refresh", IF valid THEN "valid" ELSE "invalid">>)]
            /\ IF valid
               THEN resolve_signing_identity(r, <<>>, [credentials[r] EXCEPT !.valid = TRUE])
               ELSE raise_in_handler(r,
                       <<Log(r, "ERROR", "Credentials remain invalid after refresh.", NoException)>>,
                       HTTPException(HTTP_500_INTERNAL_SERVER_ERROR, InvalidCredentialsDetail))
    /\ UNCHANGED <<process, log_record, entry>>
    /\ UNCHANGED <<environ, settings, formatter_project_id, gcs_client, request,
                   locals, raised>>

\* lines 86-96: gcs_service.client raises when the client was never
\* initialised; otherwise blob.exists() is called once
generate_signed_url_exists_unchecked(r) ==
    /\ pc[r] = "h_exists"
    /\ gcs_client # None
    /\ \E exists \in BOOLEAN :
            calls' = [calls EXCEPT ![r] = Append(@,
                        <<"exists", IF exists THEN "true" ELSE "false">>)]
    /\ pc' = [pc EXCEPT ![r] = "h_sign"]
    /\ UNCHANGED <<logs, response, credentials, trace_id_var, span_id_var>>
    /\ UNCHANGED <<process, log_record, entry>>
    /\ UNCHANGED <<environ, settings, formatter_project_id, gcs_client, request,
                   locals, raised>>

generate_signed_url_exists(r) ==
    /\ pc[r] = "h_exists"
    /\ IF gcs_client = None
       THEN /\ raise_in_handler(r,
                    <<Log(r, "ERROR", "Attempted to access uninitialized GCS client.", NoException)>>,
                    RuntimeError)
            /\ UNCHANGED calls
       ELSE \/ /\ raise_in_handler(r, <<>>, GoogleAPIError)
               /\ calls' = [calls EXCEPT ![r] = Append(@, <<"exists", "raised">>)]
            \/ \E exists \in BOOLEAN :
                 /\ calls' = [calls EXCEPT ![r] = Append(@,
                         <<"exists", IF exists THEN "true" ELSE "false">>)]
                 /\ IF exists
                    THEN /\ pc' = [pc EXCEPT ![r] = "h_sign"]
                         /\ UNCHANGED <<logs, response, credentials,
                                        trace_id_var, span_id_var>>
                    ELSE raise_in_handler(r,
                            <<Log(r, "WARNING", "File not found in GCS for signed URL generation", NoException)>>,
                            HTTPException(HTTP_404_NOT_FOUND, FileNotFoundDetail))
    /\ UNCHANGED <<process, log_record, entry>>
    /\ UNCHANGED <<environ, settings, formatter_project_id, gcs_client, request,
                   locals, raised>>

\* lines 98-108: blob.generate_signed_url() is called and its URL returned
generate_signed_url_sign(r) ==
    /\ pc[r] = "h_sign"
    /\ \/ /\ raise_in_handler(r, <<>>, GoogleAPIError)
          /\ calls' = [calls EXCEPT ![r] = Append(@, <<"generate_signed_url", "raised">>)]
       \/ /\ calls' = [calls EXCEPT ![r] = Append(@, <<"generate_signed_url", "url">>)]
          /\ dispatch_return(r,
                <<Log(r, "INFO", "Successfully generated signed URL", NoException)>>,
                JSONResponse(200,
                    [signed_url |-> <<"v4", "GET", request[r].filename, request[r].expires_in,
                                      credentials[r].service_account_email>>]))
          /\ credentials' = [credentials EXCEPT ![r] = NoCredentials]
    /\ UNCHANGED <<process, log_record, entry>>
    /\ UNCHANGED <<environ, settings, formatter_project_id, gcs_client, request,
                   locals, raised>>

\* -------------------------------------------------------------------- Next
Next ==
    \E r \in Requests :
        \/ dispatch_start(r)
        \/ dispatch_except(r)
        \/ server_error(r)
        \/ root(r)
        \/ request_validation_error(r)
        \/ generate_signed_url_default(r)
        \/ generate_signed_url_refresh(r)
        \/ generate_signed_url_exists(r)
        \/ generate_signed_url_sign(r)

Spec == Init /\ [][Next]_vars

\* ------------------------------------------------ specification: start-up
\* The import of app.main statement by statement, then serving; and the
\* calls other code may make to the public configuration functions.
no_request_yet ==
    /\ pc = [r \in Requests |-> "idle"]
    /\ request = [r \in Requests |-> NoRequest]
    /\ trace_id_var = [r \in Requests |-> NoId]
    /\ span_id_var = [r \in Requests |-> NoId]
    /\ locals = [r \in Requests |-> NoLocals]
    /\ credentials = [r \in Requests |-> NoCredentials]
    /\ calls = [r \in Requests |-> <<>>]
    /\ logs = [r \in Requests |-> <<>>]
    /\ response = [r \in Requests |-> NoResponse]
    /\ raised = [r \in Requests |-> NoException]

InitStartup ==
    /\ environ \in ProcessEnvirons
    /\ \E prior \in PriorHandlers : process = InitialProcess(prior)
    /\ settings = NoSettings
    /\ formatter_project_id = None
    /\ gcs_client = None
    /\ no_request_yet
    /\ log_record = NoLogRecord
    /\ entry = <<>>

\* the process moves to p; the formatter in use is the one setup_logging made
process_step(p) ==
    /\ process' = p
    /\ formatter_project_id' = p.formatter
    /\ UNCHANGED <<environ, request_vars, log_record, entry>>

\* app_config.py line 49: settings = AppConfig.get_settings_cached()
import_app_config_settings ==
    /\ process.pc = "app_config:49"
    /\ LET p == proceed(get_settings_cached(process, environ), "app_config:50")
       IN  /\ process_step(p)
           /\ settings' = IF p.pc = "app_config:50" /\ p.returned # <<>>
                          THEN p.returned[1].fields
                          ELSE settings
    /\ UNCHANGED gcs_client

\* app_config.py line 50: logger = AppConfig.get_configured_logger()
import_app_config_logger ==
    /\ process.pc = "app_config:50"
    /\ process_step(proceed(get_configured_logger(process, environ), "main:8"))
    /\ UNCHANGED <<settings, gcs_client>>

\* main.py line 8: AppConfig.initialize_app_config()
main_initialize_app_config ==
    /\ process.pc = "main:8"
    /\ process_step(proceed(initialize_app_config(process, environ), "gcs_client:38"))
    /\ UNCHANGED <<settings, gcs_client>>

\* gcs_client.py line 38: gcs_service = GCSClient()
import_gcs_client ==
    /\ process.pc = "gcs_client:38"
    /\ process_step(proceed(GCSClient_new(process), "lifespan"))
    /\ gcs_client' \in {"client", None}
    /\ UNCHANGED settings

\* main.py lines 16-34: the lifespan context up to its yield
lifespan_startup ==
    /\ process.pc = "lifespan"
    /\ process_step(proceed(lifespan(process), "serving"))
    /\ UNCHANGED <<settings, gcs_client>>

\* the server hands a request to the application
accept_request ==
    /\ process.pc = "serving"
    /\ process.served < MaxServed
    /\ process_step([process EXCEPT !.served = @ + 1])
    /\ UNCHANGED <<settings, gcs_client>>

\* other code calls a public configuration function
later(name) == [process EXCEPT !.later_calls = Append(@, name)]

later_get_setings ==
    /\ process.pc # "exited"
    /\ Len(process.later_calls) < MaxLaterCalls
    /\ process_step(get_setings_call(later("get_setings"), environ))
    /\ UNCHANGED <<settings, gcs_client>>

later_get_settings_cached ==
    /\ process.pc \notin {"exited", "app_config:49", "app_config:50"}
    /\ Len(process.later_calls) < MaxLaterCalls
    /\ process_step(get_settings_cached(later("get_settings_cached"), environ))
    /\ UNCHANGED <<settings, gcs_client>>

later_get_configured_logger ==
    /\ process.pc \notin {"exited", "app_config:49", "app_config:50"}
    /\ Len(process.later_calls) < MaxLaterCalls
    /\ process_step(get_configured_logger(later("get_configured_logger"), environ))
    /\ UNCHANGED <<settings, gcs_client>>

later_setup_logging ==
    /\ process.pc # "exited"
    /\ Len(process.later_calls) < MaxLaterCalls
    /\ \E project_id \in {None, "env-project"} :
            process_step(setup_logging(later("setup_logging"), project_id))
    /\ UNCHANGED <<settings, gcs_client>>

NextStartup ==
    \/ import_app_config_settings
    \/ import_app_config_logger
    \/ main_initialize_app_config
    \/ import_gcs_client
    \/ lifespan_startup
    \/ accept_request
    \/ later_get_setings
    \/ later_get_settings_cached
    \/ later_get_configured_logger
    \/ later_setup_logging

SpecStartup == InitStartup /\ [][NextStartup]_vars

\* ------------------------------------- specification: the serving process
\* The requests of Spec, and code that asks AppConfig for the logger again
\* while they are served.
get_configured_logger_while_serving ==
    /\ process.pc = "serving"
    /\ process' = get_configured_logger(process, environ)
    /\ formatter_project_id' = process'.formatter
    /\ UNCHANGED <<environ, settings, gcs_client, request_vars, log_record, entry>>

\* a GCSClient() that tries storage.Client() again while it has no client
GCSClient_retry(instantiated, client, outcome) ==
    IF instantiated /\ client # None THEN client ELSE outcome

\* GCSClient(): __new__ runs storage.Client() only while cls._instance is
\* None; afterwards it hands back the instance, client or no client
GCSClient(instantiated, client, outcome) ==
    IF instantiated THEN client ELSE outcome

\* code that constructs GCSClient() again after the import
GCSClient_while_serving ==
    /\ process.pc = "serving"
    /\ \E outcome \in {"client", None} :
            gcs_client' = GCSClient(TRUE, gcs_client, outcome)
    /\ UNCHANGED <<environ, settings, formatter_project_id, request_vars,
                   process, log_record, entry>>

NextLifetime ==
    \/ Next
    \/ get_configured_logger_while_serving
    \/ GCSClient_while_serving

SpecLifetime == Init /\ [][NextLifetime]_vars

\* ------------------------------------------- specification: the formatter
\* StructuredLogFormatter.format applied to one record, for every context
\* and every configured project id.
LogRecords ==
    [severity   : {"DEBUG", "INFO", "WARNING", "ERROR", "CRITICAL"},
     message    : {"m"},
     exc        : {NoException} \cup UnexpectedExceptions,
     trace_id   : {NoId, <<"trace", 1>>},
     span_id    : {NoId, <<"span", 1>>},
     project_id : {None, "", "env-project"}]

InitFormat ==
    /\ log_record \in LogRecords
    /\ entry = <<>>
    /\ environ \in StartupEnvirons
    /\ settings = get_setings(environ.ENVIRONMENT, environ.GCP_PROJECT)
    /\ formatter_project_id = log_record.project_id
    /\ gcs_client = "client"
    /\ process = started(environ)
    /\ no_request_yet

StructuredLogFormatter_format ==
    /\ entry = <<>>
    /\ entry' = <<format(log_record.severity, log_record.message, log_record.exc,
                         log_record.trace_id, log_record.span_id,
                         formatter_project_id)>>
    /\ UNCHANGED <<environ, settings, formatter_project_id, gcs_client,
                   request_vars, process, log_record>>

NextFormat == StructuredLogFormatter_format

SpecFormat == InitFormat /\ [][NextFormat]_vars


\* ================================================================= claims
HeaderNames(resp) == {h[1] : h \in resp.headers}
HeaderValues(resp, name) == {h[2] : h \in {g \in resp.headers : g[1] = name}}
Invocations(r, capability) == {i \in DOMAIN calls[r] : calls[r][i][1] = capability}
Results(r, capability) == {calls[r][i][2] : i \in Invocations(r, capability)}
Entries(r) == {logs[r][i] : i \in DOMAIN logs[r]}
\* the request was sent its response
Done(r) == pc[r] = "done"
\* call_next returned a response (COMPLETED) / raised (FAILED)
Completed(r) == pc[r] = "done" /\ raised[r] = NoException
Failed(r) == pc[r] \in {"dispatch_raised", "done"} /\ raised[r] # NoException
\* the strings of an error body, nested details included
BodyTexts(body) ==
    {body[k] : k \in DOMAIN body \ {"details"}}
    \cup (IF "details" \in DOMAIN body
          THEN {body.details[k] : k \in DOMAIN body.details}
          ELSE {})

\* C1: whichever way dispatch exits (response returned, or exception
\* re-raised), both ContextVars hold their pre-request values again.
\* Stated as claimed; the code breaks it on the exception path.
C1_ContextResetOnEveryExit ==
    \A r \in Requests :
        (Completed(r) \/ Failed(r)) =>
            /\ trace_id_var[ContextOf(r)] = locals[r].trace_token
            /\ span_id_var[ContextOf(r)] = locals[r].span_token

\* C2: every entry formatted while request r is handled carries r's own
\* span id, and r's own trace id whenever the trace field is written, which
\* is the trace id the response returns in X-Trace-ID.
C2_LogEntriesCarryOwnIds ==
    \A r \in Requests :
        /\ \A e \in Entries(r) :
            /\ "spanId" \in DOMAIN e /\ e.spanId = urandom_hex(r)
            /\ ("trace" \in DOMAIN e) <=> Truthy(formatter_project_id)
            /\ ("trace" \in DOMAIN e) => e.trace[4] = uuid4(r)
        /\ HeaderValues(response[r], "X-Trace-ID") \subseteq {uuid4(r)}
        /\ HeaderValues(response[r], "X-Span-ID") \subseteq {urandom_hex(r)}

\* C2 witness: two requests in flight at once, both inside the handler
\* with handler entries logged and the trace field written.
C2_Witness ==
    /\ NumRequests >= 2
    /\ Truthy(formatter_project_id)
    /\ pc[1] = "h_sign" /\ pc[2] = "h_refresh"
    /\ Len(logs[1]) > 2 /\ Len(logs[2]) > 2

\* C3: the catch-all responder's body has the generic code and holds
\* neither the exception's type name nor its message.  Stated as claimed;
\* the code puts both into details.
C3_NoExceptionTextInBody ==
    \A r \in Requests :
        (Done(r) /\ raised[r] # NoException) =>
            /\ response[r].body.code = "UNEXPECTED_ERROR"
            /\ raised[r].type \notin BodyTexts(response[r].body)
            /\ raised[r].message \notin BodyTexts(response[r].body)

\* C4: the settings singleton keeps the value it was loaded with.  Stated
\* as claimed; the handler assigns settings.GCP_PROJECT on every request.
C4_SettingsNeverWritten ==
    settings = get_setings(environ.ENVIRONMENT, environ.GCP_PROJECT)

\* C5: every response sent carries X-Trace-ID, X-Span-ID and
\* X-Process-Time.  Stated as claimed; the catch-all responder's response
\* never passes the code that sets them.
C5_TraceHeadersOnEveryResponse ==
    \A r \in Requests :
        Done(r) => {"X-Trace-ID", "X-Span-ID", "X-Process-Time"}
                        \subseteq HeaderNames(response[r])

\* C6: invalid credentials are refreshed exactly once; when the refresh
\* leaves them invalid the request ends in a 500 with the credentials
\* message, with one refresh call and no existence check and no signing.
C6_OneRefreshThenAuthError ==
    \A r \in Requests :
        /\ Cardinality(Invocations(r, "refresh")) <= 1
        /\ ("invalid" \in Results(r, "default") /\ pc[r] # "h_refresh")
                => Cardinality(Invocations(r, "refresh")) = 1
        /\ Invocations(r, "refresh") # {} => "invalid" \in Results(r, "default")
        /\ "invalid" \in Results(r, "refresh") =>
            /\ Completed(r)
            /\ response[r].status_code = 500
            /\ response[r].body.message = InvalidCredentialsDetail
            /\ Invocations(r, "exists") = {}
            /\ Invocations(r, "generate_signed_url") = {}

C6_Witness ==
    \E r \in Requests :
        /\ Done(r)
        /\ calls[r] = <<<<"default", "invalid">>, <<"refresh", "invalid">>>>
        /\ response[r].status_code = 500

\* C7: an absent object gives 404 with a body code that names the
\* not-found condition (FILE_NOT_FOUND, the code the error model documents),
\* one existence check and no signing.  Stated as claimed; the body code is
\* the HTTP_ERROR of every other HTTPException.
C7_NotFoundCode ==
    \A r \in Requests :
        "false" \in Results(r, "exists") =>
            /\ Completed(r)
            /\ response[r].status_code = 404
            /\ response[r].body.code = "FILE_NOT_FOUND"
            /\ Cardinality(Invocations(r, "exists")) = 1
            /\ Invocations(r, "generate_signed_url") = {}

C9_UniformErrorBody ==
    \A r \in Requests :
        (Done(r) /\ response[r].status_code >= 400) =>
            /\ {"code", "message"} \subseteq DOMAIN response[r].body
            /\ DOMAIN response[r].body \subseteq {"code", "message", "details"}

\* C10: when call_next raises, dispatch writes one ERROR entry for that
\* exception and the exception leaving dispatch is that same exception; no
\* response is returned in its place (no headers stamped, no finish entry).
C10_LoggedThenReraisedUnchanged ==
    \A r \in Requests :
        pc[r] = "dispatch_raised" =>
            LET last == logs[r][Len(logs[r])]
            IN  /\ last.severity = "ERROR"
                /\ last.message = "Exception during request processing"
                /\ last.exception = <<raised[r].type, raised[r].message>>
                /\ raised[r] \in UnexpectedExceptions
                /\ response[r] = Response(HTTP_500_INTERNAL_SERVER_ERROR)
                /\ \A e \in Entries(r) : e.message # "Request finished"

C10_Witness ==
    \E r \in Requests : pc[r] = "dispatch_raised" /\ Len(logs[r]) = 3


\* ------------------------------------------------------------ claims C11-C20
Logged(r, message) == \E i \in DOMAIN logs[r] : logs[r][i].message = message
ValidCredentials(r) == "valid" \in (Results(r, "default") \cup Results(r, "refresh"))

\* C11: valid credentials that are not of the compute-identity kind, or
\* that carry no service-account email, end the request with the 500
\* signing-identity error; the existence check and the signing capability
\* are not invoked.
C11_NoIdentityNoStorageCall ==
    \A r \in Requests :
        (/\ ValidCredentials(r)
         /\ \/ Logged(r, "Credentials object type: UserCredentials")
            \/ Logged(r, "Credentials service_account_email (from object): None")
            \/ Logged(r, "Credentials service_account_email (from object): UNKNOWN_SERVICE_ACCOUNT_EMAIL"))
        => /\ Completed(r)
           /\ response[r].status_code = 500
           /\ response[r].body.message = SigningIdentityDetail
           /\ Logged(r, "Could not determine service account email")
           /\ Invocations(r, "exists") = {}
           /\ Invocations(r, "generate_signed_url") = {}

C11_Witness ==
    /\ Done(1) /\ Logged(1, "Credentials object type: UserCredentials")
    /\ Done(2) /\ Logged(2, "Credentials object type: ComputeEngineCredentials")
    /\ Logged(2, "Credentials service_account_email (from object): None")
    /\ response[2].status_code = 500

\* C12: an absent object is logged at WARNING and is an expected outcome:
\* from that entry to the end of the request (handler and error responder)
\* no entry of severity ERROR and no "unexpected error" entry is written.
\* Stated as claimed; the 404 HTTPException passes through the handler's
\* `except Exception` clause, which logs it as an unexpected error, and the
\* HTTPException responder logs at ERROR as well.
C12_NotFoundIsNotAnError ==
    \A r \in Requests :
        "false" \in Results(r, "exists") =>
            \E i \in DOMAIN logs[r] :
                /\ logs[r][i].severity = "WARNING"
                /\ logs[r][i].message = "File not found in GCS for signed URL generation"
                /\ \A j \in i..Len(logs[r]) :
                    /\ logs[r][j].severity # "ERROR"
                    /\ logs[r][j].message # "An unexpected error occurred during signed URL generation"

\* C13: the settings object is constructed at most once per process; every
\* call of get_setings or get_settings_cached after the first load returns
\* that one instance, and the cache and the module-level name hold it too.
C13_SettingsConstructedOnce ==
    /\ process.constructions <= 1
    /\ process.returned # <<>> =>
        /\ process.returned = process.settings_instance
        /\ process.returned[1].id = 1
    /\ process.settings_cache # <<>> => process.settings_cache = process.settings_instance
    /\ settings # NoSettings => settings = process.settings_instance[1].fields

C13_Witness ==
    /\ process.later_calls = <<"get_setings", "get_settings_cached">>
    /\ process.pc = "serving"
    /\ process.constructions = 1
    /\ process.returned[1].id = 1

\* C14: when the construction of the settings raises, the process ends with
\* a non-zero exit status before any request is accepted; and a request is
\* accepted only by a process whose settings were constructed.
C14_ExitBeforeServing ==
    /\ construction_raises(environ) =>
        /\ process.served = 0
        /\ process.pc \in {"app_config:49", "exited"}
        /\ process.pc = "app_config:49" => process.constructions = 0
        /\ process.pc = "exited" =>
            /\ process.exit_status # <<>>
            /\ process.exit_status[1] # 0
    /\ process.served > 0 =>
        /\ process.settings_instance # <<>>
        /\ settings = process.settings_instance[1].fields

C14_Witness ==
    /\ construction_raises(environ)
    /\ process.pc = "exited"
    /\ process.exit_status = <<1>>
    /\ process.served = 0

\* the spellings of a profile name, and the profile each value should select
C15_Spellings ==
    [local       |-> {"local", "LOCAL", "Local"},
     development |-> {"development", "DEVELOPMENT", "Development"},
     test        |-> {"test", "TEST", "Test"},
     staging     |-> {"staging", "STAGING", "Staging"},
     production  |-> {"production", "PRODUCTION", "Production"}]

C15_Profile(value) ==
    IF value \in C15_Spellings.development THEN DevelopmentSettings
    ELSE IF value \in C15_Spellings.test THEN TestSettings
    ELSE IF value \in C15_Spellings.staging THEN StagingSettings
    ELSE IF value \in C15_Spellings.production THEN ProductionSettings
    ELSE LocalSettings

\* C15: whatever ENVIRONMENT holds, the load does not fail on it: one of
\* the five names in any letter case selects that profile, any other value
\* or no value selects the local profile.
C15_EnvironmentSelectsProfile ==
    /\ ~construction_raises(environ) =>
        /\ process.pc # "exited"
        /\ process.pc # "app_config:49" => process.settings_instance # <<>>
    /\ process.settings_instance # <<>> =>
        LET instance == process.settings_instance[1]
        IN  /\ instance.class = C15_Profile(environ.ENVIRONMENT)
            /\ instance.fields.LOG_LEVEL = C15_Profile(environ.ENVIRONMENT).LOG_LEVEL
            /\ instance.fields.DEBUG = C15_Profile(environ.ENVIRONMENT).DEBUG
            /\ instance.fields.GCS_BUCKET_NAME = C15_Profile(environ.ENVIRONMENT).GCS_BUCKET_NAME

C15_Witness ==
    /\ environ.ENVIRONMENT = "PRODUCTION"
    /\ process.pc = "serving"
    /\ process.settings_instance[1].class = ProductionSettings
    /\ settings.LOG_LEVEL = "WARNING"

C17_OneHandlerAfterSetup ==
    process.setup_calls >= 1 =>
        /\ process.handlers = <<"stdout_structured">>
        /\ process.records_emitted = process.log_calls

C17_Witness ==
    /\ Len(process.prior_handlers) = 2
    /\ process.setup_calls >= 3
    /\ process.pc = "serving"
    /\ process.handlers = <<"stdout_structured">>

\* C18: whatever requests were served before and alongside, every /echo/
\* response reports the bucket name and the environment of the settings as
\* they were loaded at start-up.
C18_EchoReportsLoadedProfile ==
    \A r \in Requests :
        (Completed(r) /\ request[r].route = "/echo/") =>
            /\ response[r].status_code = 200
            /\ response[r].body.BucketName = process.settings_instance[1].fields.GCS_BUCKET_NAME
            /\ response[r].body.Environment = process.settings_instance[1].fields.ENVIRONMENT

C18_Witness ==
    /\ Completed(1) /\ request[1].route = "/v1/url/"
    /\ Invocations(1, "default") # {}
    /\ settings # process.settings_instance[1].fields
    /\ Completed(2) /\ request[2].route = "/echo/"
    /\ response[2].body.BucketName = settings.GCS_BUCKET_NAME

\* position of a capability in the order of the handler's steps
C19_Rank(capability) ==
    CASE capability = "default" -> 1
      [] capability = "refresh" -> 2
      [] capability = "exists"  -> 3
      [] capability = "generate_signed_url" -> 4

C19_IdentityResolved(r) ==
    /\ Logged(r, "Credentials object type: ComputeEngineCredentials")
    /\ Logged(r, "Credentials service_account_email (from object): svc@adc-project.iam")
    /\ ~Logged(r, "Could not determine service account email")

\* C19: the capabilities are invoked in the order default, refresh,
\* exists, sign, each at most once; signing happens only after valid
\* credentials, a resolved identity and an existence check that returned
\* true; a URL is returned only when signing was invoked.
C19_StepsInOrder ==
    \A r \in Requests :
        /\ \A i, j \in DOMAIN calls[r] :
                i < j => C19_Rank(calls[r][i][1]) < C19_Rank(calls[r][j][1])
        /\ Cardinality(Invocations(r, "generate_signed_url")) <= 1
        /\ Invocations(r, "exists") # {} =>
                ValidCredentials(r) /\ C19_IdentityResolved(r)
        /\ (Invocations(r, "generate_signed_url") # {} \/ pc[r] = "h_sign") =>
                /\ ValidCredentials(r)
                /\ C19_IdentityResolved(r)
                /\ Results(r, "exists") = {"true"}
        /\ (Done(r) /\ "signed_url" \in DOMAIN response[r].body) =>
                "url" \in Results(r, "generate_signed_url")

C19_Witness ==
    \E r \in Requests :
        /\ Completed(r)
        /\ calls[r] = <<<<"default", "invalid">>, <<"refresh", "valid">>,
                        <<"exists", "true">>, <<"generate_signed_url", "url">>>>
        /\ response[r].status_code = 200

C20_HandlerRan(r) == Logged(r, "Received request to generate signed URL")

\* C20: a request that reached generate_signed_url ends with the signed
\* URL or with the response of an HTTPException; an exception of any other
\* kind from default(), refresh(), exists() or generate_signed_url(), or
\* from the uninitialised storage client, becomes a 500 with a fixed
\* message; an HTTPException raised inside keeps its status and detail.
C20_UrlOrHTTPException ==
    \A r \in Requests :
        (C20_HandlerRan(r) /\ Done(r)) =>
            /\ Completed(r)
            /\ \/ /\ response[r].status_code = 200
                  /\ DOMAIN response[r].body = {"signed_url"}
               \/ /\ response[r].status_code \in {404, 500}
                  /\ response[r].body.code = "HTTP_ERROR"
            /\ "raised" \in Results(r, "default") =>
                  /\ response[r].status_code = 500
                  /\ response[r].body.message = AuthenticationFailedDetail
            /\ ("raised" \in (Results(r, "refresh") \cup Results(r, "exists")
                                \cup Results(r, "generate_signed_url"))
                \/ Logged(r, "Attempted to access uninitialized GCS client.")) =>
                  /\ response[r].status_code = 500
                  /\ response[r].body.message = InternalServerErrorDetail
            /\ "false" \in Results(r, "exists") =>
                  /\ response[r].status_code = 404
                  /\ response[r].body.message = FileNotFoundDetail
            /\ "invalid" \in Results(r, "refresh") =>
                  /\ response[r].status_code = 500
                  /\ response[r].body.message = InvalidCredentialsDetail
            /\ Logged(r, "Could not determine service account email") =>
                  /\ response[r].status_code = 500
                  /\ response[r].body.message = SigningIdentityDetail

C20_Witness ==
    \E r \in Requests :
        /\ gcs_client = None
        /\ Completed(r)
        /\ Logged(r, "Attempted to access uninitialized GCS client.")
        /\ Invocations(r, "exists") = {}
        /\ response[r].status_code = 500
        /\ response[r].body.message = InternalServerErrorDetail

\* ------------------------------------------------------------ claims C21-C23
CountLogged(r, message) ==
    Cardinality({i \in DOMAIN logs[r] : logs[r][i].message = message})

\* C21: a request in dispatch goes START -> IN_FLIGHT -> COMPLETED or
\* FAILED: "Request started" is the first entry, written with the ids
\* already in the context and before call_next; while call_next runs there
\* is neither a finish entry nor an exception entry; once call_next has
\* ended there is exactly one of the two, the finish entry when it returned
\* and the exception entry when it raised.
C21_StartedThenOneOutcome ==
    \A r \in Requests :
        /\ pc[r] = "idle" => logs[r] = <<>>
        /\ pc[r] # "idle" =>
            /\ CountLogged(r, "Request started") = 1
            /\ logs[r][1].message = "Request started"
            /\ logs[r][1].spanId = locals[r].span_id
        /\ pc[r] \notin {"dispatch_raised", "done"} =>
            /\ CountLogged(r, "Request finished") = 0
            /\ CountLogged(r, "Exception during request processing") = 0
        /\ pc[r] \in {"dispatch_raised", "done"} =>
            /\ CountLogged(r, "Request finished")
                 + CountLogged(r, "Exception during request processing") = 1
            /\ (CountLogged(r, "Request finished") = 1) <=> (raised[r] = NoException)
            /\ logs[r][Len(logs[r])].message \in
                    {"Request finished", "Exception during request processing",
                     "Unhandled exception caught"}

C21_Witness ==
    /\ Completed(1) /\ CountLogged(1, "Request finished") = 1
    /\ Failed(2) /\ CountLogged(2, "Exception during request processing") = 1
    /\ CountLogged(2, "Request finished") = 0

\* C22: logging is set up once however often the logger is asked for, and
\* the project id of the trace field is, for the whole life of the process,
\* the one the bootstrap settings gave at start-up, whatever project id
\* requests have since stored in the settings.
C22_LoggerConfiguredOnce ==
    /\ process.logger
    /\ process.setup_calls = 1
    /\ process.formatter = bootstrap_project_id(environ.GCP_PROJECT)
    /\ formatter_project_id = bootstrap_project_id(environ.GCP_PROJECT)
    /\ \A r \in Requests : \A i \in DOMAIN logs[r] :
            /\ ("trace" \in DOMAIN logs[r][i]) <=> (environ.GCP_PROJECT # None)
            /\ "trace" \in DOMAIN logs[r][i] => logs[r][i].trace[2] = environ.GCP_PROJECT

C22_Witness ==
    \E r \in Requests :
        /\ environ.GCP_PROJECT = "env-project"
        /\ settings.GCP_PROJECT = "adc-project"
        /\ Completed(r)
        /\ Invocations(r, "default") # {}
        /\ logs[r][Len(logs[r])].trace[2] = "env-project"

\* C23: the storage client is made once.  When that failed, the process
\* serves on without a client for good: no later GCSClient() call tries
\* again, and every signed-URL request that comes to the existence check
\* gets a 500 without exists() or generate_signed_url() being called.
C23_NoClientNoStorageCall ==
    \A r \in Requests :
        /\ Logged(r, "Attempted to access uninitialized GCS client.") => gcs_client = None
        /\ (Invocations(r, "exists") # {} \/ Invocations(r, "generate_signed_url") # {}
            \/ pc[r] = "h_sign") => gcs_client = "client"
        /\ (gcs_client = None /\ Done(r) /\ ValidCredentials(r) /\ C19_IdentityResolved(r)) =>
            /\ Completed(r)
            /\ Logged(r, "Attempted to access uninitialized GCS client.")
            /\ response[r].status_code = 500
            /\ response[r].body.message = InternalServerErrorDetail
            /\ Invocations(r, "exists") = {}
            /\ Invocations(r, "generate_signed_url") = {}

C23_Witness ==
    /\ gcs_client = None
    /\ \A r \in Requests :
        /\ Completed(r)
        /\ ValidCredentials(r)
        /\ Logged(r, "Attempted to access uninitialized GCS client.")
        /\ response[r].status_code = 500

=============================================================================
